---- MODULE Spec2Model ----
(***************************************************************************)
(* A model of the gh-lang-stats-ts worker (src/src/index.ts): one GET      *)
(* request is taken through the upstream repository fetch, the language    *)
(* tally, the percentage map, the `top` parameter and generateSvg with its *)
(* concurrent colour computations, down to the response.                   *)
(*                                                                         *)
(* Text the code inspects character by character (the percentage strings   *)
(* made by toFixed and read back by parseFloat, the `top` parameter read   *)
(* by parseInt, the hex digest) is a sequence of one-character strings.    *)
(* Language names are never inspected and stay opaque strings.             *)
(***************************************************************************)
EXTENDS Integers, Sequences, FiniteSets, TLC

VARIABLES pc, request, upstream, fetchCalls, repos, langs, percMap, count,
          topLangs, langItems, svgCalls, responses, log

vars == <<pc, request, upstream, fetchCalls, repos, langs, percMap, count,
          topLangs, langItems, svgCalls, responses, log>>

(***************************************************************************)
(* Bounds and input sets                                                   *)
(***************************************************************************)

\* Longest upstream repository list of which every arrangement is tried.
MaxRepos == 4

\* Longest run of one language in the longer, grouped repository lists.
MaxRun == 8

\* Largest count of one language in a tally drawn directly.
MaxTally == 16

\* `language: string | null`: the null of a repository without a language.
Null == "<null>"

\* What searchParams.get returns for a parameter that is not in the query.
NullText == <<"<null>">>

\* The language names of the test's mockRepos, and the empty string.
Languages == {"TypeScript", "JavaScript", "Python", ""}

GitHubRepo == [language : Languages \cup {Null}]

Repo(l) == [language |-> l]

\* The repository list the tests serve from the mocked upstream.
mockRepos ==
  << Repo("TypeScript"), Repo("TypeScript"), Repo("JavaScript"),
     Repo("Python"), Repo("Python"), Repo("Python"), Repo(Null) >>

Run(l, n) == [i \in 1..n |-> Repo(l)]

\* Longer lists, up to three languages in runs, for percentages of one and
\* of two integer digits side by side.
RunLists ==
  { Run("TypeScript", a) \o Run("Python", b) \o Run("JavaScript", c) :
      a \in 0..MaxRun, b \in 0..MaxRun, c \in 0..MaxRun }

RepoLists ==
  UNION { [1..n -> GitHubRepo] : n \in 0..MaxRepos } \cup { mockRepos } \cup RunLists

\* Language tallies as the reduce of lines 187-190 leaves them: distinct
\* keys in first-seen order, each with a positive count.
Tallies ==
  { << <<"TypeScript", a>> >> : a \in 1..MaxTally }
    \cup { << <<"TypeScript", a>>, <<"Python", b>> >> : a \in 1..MaxTally, b \in 1..MaxTally }
    \cup { << <<"TypeScript", a>>, <<"Python", b>>, <<"JavaScript", c>> >> :
              a \in 1..MaxTally, b \in 1..MaxTally, c \in 1..MaxTally }

\* Values of the `top` query parameter, as searchParams.get returns them.
TopValues ==
  { <<>>, <<"0">>, <<"-", "1">>, <<"2">>, <<"1", "0">>, <<" ", "4">>,
    <<"2", "a", "b", "c">>, <<"3", ".", "7">>, <<"a", "b", "c">> }

Queries == { <<>> } \cup { << [key |-> "top", value |-> v] >> : v \in TopValues }

\* Methods other than GET and OPTIONS.
OtherMethods == {"POST", "PUT", "DELETE", "PATCH"}

\* Upstream replies that are not successful, as the tests mock them.
ErrorReplies ==
  { [status |-> 403, statusText |-> "Forbidden", body |-> <<>>],
    [status |-> 404, statusText |-> "Not Found", body |-> <<>>] }

OkReplies == { [status |-> 200, statusText |-> "OK", body |-> b] : b \in RepoLists }

NoReply == [status |-> 0, statusText |-> "", body |-> <<>>]

(***************************************************************************)
(* Text and numbers                                                        *)
(***************************************************************************)

DigitChars == <<"0", "1", "2", "3", "4", "5", "6", "7", "8", "9">>

HexChars == DigitChars \o <<"a", "b", "c", "d", "e", "f">>

IsDigit(c) == \E d \in 1..10 : DigitChars[d] = c

DigitValue(c) == (CHOOSE d \in 1..10 : DigitChars[d] = c) - 1

\* Number.prototype.toString(10) of a natural number.
RECURSIVE DecimalText(_)
DecimalText(n) ==
  IF n < 10 THEN << DigitChars[n + 1] >>
  ELSE DecimalText(n \div 10) \o << DigitChars[(n % 10) + 1] >>

\* The value of a run of decimal digits.
RECURSIVE DigitsValue(_)
DigitsValue(s) ==
  IF s = <<>> THEN 0
  ELSE 10 * DigitsValue(SubSeq(s, 1, Len(s) - 1)) + DigitValue(s[Len(s)])

\* The longest prefix of s made of decimal digits.
RECURSIVE DigitPrefix(_)
DigitPrefix(s) ==
  IF s # <<>> /\ IsDigit(Head(s)) THEN << Head(s) >> \o DigitPrefix(Tail(s))
  ELSE <<>>

RECURSIVE TrimStart(_)
TrimStart(s) ==
  IF s # <<>> /\ Head(s) = " " THEN TrimStart(Tail(s)) ELSE s

NaN == [nan |-> TRUE, val |-> 0]

Num(n) == [nan |-> FALSE, val |-> n]

\* parseInt(text, 10): leading white space is skipped, a sign is read, and
\* the longest run of digits that follows is the value; whatever comes
\* after that run is ignored.  No digit at all gives NaN.
ParseInt(text) ==
  LET s     == TrimStart(text)
      neg   == s # <<>> /\ Head(s) = "-"
      rest  == IF s # <<>> /\ Head(s) \in {"-", "+"} THEN Tail(s) ELSE s
      run   == DigitPrefix(rest)
  IN  IF run = <<>> THEN NaN
      ELSE Num(IF neg THEN 0 - DigitsValue(run) ELSE DigitsValue(run))

\* A variant that cuts the number off after two decimals instead of rounding.
ToFixed2Truncating(val, total) ==
  IF total = 0 THEN <<"N", "a", "N">>
  ELSE LET n == (10000 * val) \div total
       IN  DecimalText(n \div 100) \o <<".">>
             \o << DigitChars[((n \div 10) % 10) + 1], DigitChars[(n % 10) + 1] >>

\* ((val / total) * 100).toFixed(2).  toFixed takes the integer n for which
\* n / 100 is nearest to the number, the larger n on a tie.  With total at
\* most perPage = 100 a tie can only arise for val / total = p / 32, which
\* the double arithmetic computes exactly, and away from a tie the rounding
\* error of the doubles is far smaller than the distance to the tie, so n is
\* floor(10000 * val / total + 1/2).  0 / 0 is NaN and formats as "NaN".
ToFixed2(val, total) ==
  IF total = 0 THEN <<"N", "a", "N">>
  ELSE LET n == (20000 * val + total) \div (2 * total)
       IN  DecimalText(n \div 100) \o <<".">>
             \o << DigitChars[((n \div 10) % 10) + 1], DigitChars[(n % 10) + 1] >>

\* parseFloat of a percentage text.  The texts carry two fraction digits, so
\* the number is held in hundredths.  A text with no leading digit is NaN.
ParseFloat(text) ==
  LET int  == DigitPrefix(text)
      rest == SubSeq(text, Len(int) + 1, Len(text))
      frac == IF rest # <<>> /\ Head(rest) = "." THEN DigitPrefix(Tail(rest)) ELSE <<>>
      f2   == SubSeq(frac \o <<"0", "0">>, 1, 2)
  IN  IF int = <<>> THEN NaN
      ELSE Num(100 * DigitsValue(int) + DigitsValue(f2))

(***************************************************************************)
(* Map<string, V>: the entries in insertion order, as [key, value] pairs   *)
(***************************************************************************)

MapHas(m, k) == \E i \in 1..Len(m) : m[i][1] = k

MapGet(m, k) == m[CHOOSE i \in 1..Len(m) : m[i][1] = k][2]

\* Map.prototype.set: a present key keeps its place, a new key goes last.
MapSet(m, k, v) ==
  IF MapHas(m, k)
    THEN [i \in 1..Len(m) |-> IF m[i][1] = k THEN <<k, v>> ELSE m[i]]
    ELSE Append(m, <<k, v>>)

(***************************************************************************)
(* fetch handler, lines 185-200                                            *)
(***************************************************************************)

\* A variant without the filter.
FilterReposNone(list) == list

\* .filter(r => r.language !== null)
FilterRepos(list) == SelectSeq(list, LAMBDA r : r.language # Null)

\* r.language ?? ""
LanguageKey(r) == IF r.language = Null THEN "" ELSE r.language

\* repos.reduce((acc, r) => acc.set(key, (acc.get(key) ?? 0) + 1), new Map())
RECURSIVE TallyLanguages(_, _)
TallyLanguages(list, acc) ==
  IF list = <<>> THEN acc
  ELSE LET key == LanguageKey(Head(list))
           old == IF MapHas(acc, key) THEN MapGet(acc, key) ELSE 0
       IN  TallyLanguages(Tail(list), MapSet(acc, key, old + 1))

\* A variant that takes the number of languages (langs.size) for the total.
TotalCountEntries(m) == Len(m)

\* [...langs.values()].reduce((acc, count) => acc += count, 0)
RECURSIVE TotalCount(_)
TotalCount(m) == IF m = <<>> THEN 0 ELSE m[1][2] + TotalCount(Tail(m))

\* langs.forEach((val, key) => percMap.set(key, ((val / total) * 100).toFixed(2)))
RECURSIVE PercentagesInto(_, _, _)
PercentagesInto(m, total, acc) ==
  IF m = <<>> THEN acc
  ELSE PercentagesInto(Tail(m), total,
                       MapSet(acc, m[1][1], ToFixed2(m[1][2], total)))

Percentages(m) == PercentagesInto(m, TotalCount(m), <<>>)

\* url.searchParams.get(name)
SearchParamsGet(query, name) ==
  IF \E i \in 1..Len(query) : query[i].key = name
    THEN query[CHOOSE i \in 1..Len(query) : query[i].key = name].value
    ELSE NullText

\* A variant that tests parseInt(top, 10) >= 0.
DisplayCountNonNegative(top) ==
  LET truthy == top # NullText /\ top # <<>>
      n      == ParseInt(top)
  IN  IF truthy /\ ~n.nan /\ n.val >= 0 THEN n.val ELSE 5

\* (top && parseInt(top, 10) > 0) ? parseInt(top, 10) : 5
DisplayCount(top) ==
  LET truthy == top # NullText /\ top # <<>>
      n      == ParseInt(top)
  IN  IF truthy /\ ~n.nan /\ n.val > 0 THEN n.val ELSE 5

(***************************************************************************)
(* generateSvg, lines 42-73, and the colour of a language, lines 137-157   *)
(***************************************************************************)

\* The place of a character of a percentage text in the character order.
CharOrder(c) == IF c = "." THEN 0 ELSE DigitValue(c) + 1

\* -1, 0 or 1 as text s is before, equal to or after text t.
RECURSIVE TextCompare(_, _)
TextCompare(s, t) ==
  IF s = <<>> /\ t = <<>> THEN 0
  ELSE IF s = <<>> THEN -1
  ELSE IF t = <<>> THEN 1
  ELSE IF CharOrder(Head(s)) < CharOrder(Head(t)) THEN -1
  ELSE IF CharOrder(Head(s)) > CharOrder(Head(t)) THEN 1
  ELSE TextCompare(Tail(s), Tail(t))

\* A variant that compares the percentage texts as strings.
CompareEntriesAsText(a, b) == Num(TextCompare(b[2], a[2]))

\* ([, a], [, b]) => parseFloat(b) - parseFloat(a); NaN when either is NaN.
CompareEntries(a, b) ==
  LET x == ParseFloat(a[2])
      y == ParseFloat(b[2])
  IN  IF x.nan \/ y.nan THEN NaN ELSE Num(y.val - x.val)

\* Whether the comparator puts b strictly before a (a result above zero;
\* NaN counts as zero).
SortsBefore(b, a) ==
  LET c == CompareEntries(a, b) IN ~c.nan /\ c.val > 0

\* Array.prototype.sort is stable: an entry moves in front of exactly those
\* earlier entries the comparator puts it before.
RECURSIVE InsertEntry(_, _)
InsertEntry(sorted, e) ==
  IF sorted = <<>> THEN << e >>
  ELSE IF SortsBefore(e, sorted[Len(sorted)])
    THEN Append(InsertEntry(SubSeq(sorted, 1, Len(sorted) - 1), e), sorted[Len(sorted)])
    ELSE Append(sorted, e)

RECURSIVE SortEntries(_)
SortEntries(entries) ==
  IF entries = <<>> THEN <<>>
  ELSE InsertEntry(SortEntries(SubSeq(entries, 1, Len(entries) - 1)),
                   entries[Len(entries)])

\* Array.prototype.slice(0, n) for n >= 0.
SliceTo(s, n) == SubSeq(s, 1, IF n < Len(s) THEN n ELSE Len(s))

\* A variant that cuts the entries before it sorts them.
TopLanguagesCutFirst(m, n) == SortEntries(SliceTo(m, n))

\* [...percMap.entries()].sort(...).slice(0, count)
TopLanguages(m, n) == SliceTo(SortEntries(m), n)

\* 55 + topLangs.length * 40 + 30
Height(n) == 55 + n * 40 + 30

\* crypto.subtle.digest('SHA-1', utf8(msg)) for the names of Languages.
Sha1Digest(msg) ==
  CASE msg = "TypeScript" ->
         <<212, 168, 108, 185, 70, 212, 175, 71, 102, 246, 166, 149, 80, 43,
           100, 243, 234, 12, 213, 139>>
    [] msg = "JavaScript" ->
         <<238, 98, 9, 35, 255, 95, 197, 16, 85, 93, 195, 112, 131, 161, 53,
           238, 147, 181, 64, 75>>
    [] msg = "Python" ->
         <<110, 54, 4, 136, 140, 75, 78, 192, 142, 40, 55, 145, 61, 1, 47,
           226, 131, 79, 250, 131>>
    [] msg = "" ->
         <<218, 57, 163, 238, 94, 107, 75, 13, 50, 85, 191, 239, 149, 96, 24,
           144, 175, 216, 7, 9>>

\* b.toString(16).padStart(2, '0')
HexByte(b) ==
  IF b < 16 THEN <<"0", HexChars[b + 1]>>
  ELSE <<HexChars[(b \div 16) + 1], HexChars[(b % 16) + 1]>>

RECURSIVE JoinHex(_)
JoinHex(bytes) ==
  IF bytes = <<>> THEN <<>> ELSE HexByte(Head(bytes)) \o JoinHex(Tail(bytes))

sha1Hash(msg) == JoinHex(Sha1Digest(msg))

\* `#${fullHash.slice(0, 6)}`
stringToHexColor(str) == <<"#">> \o SubSeq(sha1Hash(str), 1, 6)

\* The row one map callback returns: the <g> at translate(0, index * 40) with
\* the name, the percentage text and the bar of the computed colour.  The
\* array index of the callback counts from 0.
LangItem(entry, index) ==
  [ offset |-> index * 40,
    name   |-> entry[1],
    perc   |-> entry[2],
    width  |-> entry[2],
    fill   |-> stringToHexColor(entry[1]) ]

\* A slot of the Promise.all result that is not settled yet.
Pending == [ offset |-> -1, name |-> "", perc |-> <<>>, width |-> <<>>, fill |-> <<>> ]

\* A variant that collects the results in the order of completion.
SettleAtNextFree(items, i, item) ==
  [items EXCEPT ![CHOOSE j \in 1..Len(items) :
                    items[j] = Pending /\ \A k \in 1..j - 1 : items[k] # Pending] = item]

\* Promise.all keeps each callback's result at the callback's own index.
SettleAt(items, i, item) == [items EXCEPT ![i] = item]

(***************************************************************************)
(* Responses                                                               *)
(***************************************************************************)

SvgResponse(height, items) ==
  [ status |-> 200, contentType |-> "image/svg+xml",
    body |-> [title |-> "Top Languages", height |-> height, rows |-> items] ]

\* A variant that leaves the status text out.
GitHubErrorMessageCodeOnly(reply) ==
  "GitHub API error: " \o ToString(reply.status)

\* `GitHub API error: ${response.status} ${response.statusText}`
GitHubErrorMessage(reply) ==
  "GitHub API error: " \o ToString(reply.status) \o " " \o reply.statusText

ErrorResponse(message) ==
  [ status |-> 500, contentType |-> "application/json",
    body |-> [error |-> "Failed to fetch repository data", message |-> message] ]

OptionsResponse ==
  [ status |-> 200, contentType |-> "", body |-> [text |-> ""] ]

MethodNotAllowedResponse ==
  [ status |-> 405, contentType |-> "text/plain", body |-> [text |-> "Method not allowed"] ]

(***************************************************************************)
(* The request, step by step.  A step runs from one await to the next.     *)
(***************************************************************************)

Init ==
  /\ pc = "idle"
  /\ request = [method |-> "", query |-> <<>>]
  /\ upstream = NoReply
  /\ fetchCalls = 0
  /\ repos = <<>>
  /\ langs = <<>>
  /\ percMap = <<>>
  /\ count = 0
  /\ topLangs = <<>>
  /\ langItems = <<>>
  /\ svgCalls = 0
  /\ responses = <<>>
  /\ log = <<>>

\* Lines 169-171: an OPTIONS request is answered with the CORS headers.
HandleOptions ==
  /\ pc = "idle"
  /\ \E q \in Queries : request' = [method |-> "OPTIONS", query |-> q]
  /\ responses' = Append(responses, OptionsResponse)
  /\ log' = Append(log, "respond")
  /\ pc' = "responded"
  /\ UNCHANGED <<upstream, fetchCalls, repos, langs, percMap, count, topLangs,
                 langItems, svgCalls>>

\* Lines 173-178: any other method but GET is refused.
HandleOtherMethod ==
  /\ pc = "idle"
  /\ \E m \in OtherMethods, q \in Queries : request' = [method |-> m, query |-> q]
  /\ responses' = Append(responses, MethodNotAllowedResponse)
  /\ log' = Append(log, "respond")
  /\ pc' = "responded"
  /\ UNCHANGED <<upstream, fetchCalls, repos, langs, percMap, count, topLangs,
                 langItems, svgCalls>>

\* Lines 180-185 and 18-32: a GET request calls fetchGitHubRepos, which
\* issues the upstream fetch and waits for it.
HandleGet ==
  /\ pc = "idle"
  /\ \E q \in Queries : request' = [method |-> "GET", query |-> q]
  /\ fetchCalls' = fetchCalls + 1
  /\ log' = Append(log, "fetch")
  /\ pc' = "fetching"
  /\ UNCHANGED <<upstream, repos, langs, percMap, count, topLangs, langItems,
                 svgCalls, responses>>

\* Lines 34-38: the upstream replied with success; the body is read.
FetchSucceeds ==
  /\ pc = "fetching"
  /\ \E reply \in OkReplies : upstream' = reply
  /\ log' = Append(log, "fetched")
  /\ pc' = "json"
  /\ UNCHANGED <<request, fetchCalls, repos, langs, percMap, count, topLangs,
                 langItems, svgCalls, responses>>

\* A variant that issues the fetch again after a failure (twice at most).
FetchFailsRetry ==
  /\ pc = "fetching"
  /\ \E reply \in ErrorReplies :
       /\ upstream' = reply
       /\ IF fetchCalls < 3
            THEN /\ fetchCalls' = fetchCalls + 1
                 /\ log' = Append(log, "fetch")
                 /\ pc' = "fetching"
                 /\ UNCHANGED responses
            ELSE /\ responses' = Append(responses, ErrorResponse(GitHubErrorMessage(reply)))
                 /\ log' = Append(log, "respond")
                 /\ pc' = "responded"
                 /\ UNCHANGED fetchCalls
  /\ UNCHANGED <<request, repos, langs, percMap, count, topLangs, langItems, svgCalls>>

\* Lines 34-36 and 211-226: the upstream replied without success;
\* fetchGitHubRepos throws and the handler's catch answers 500.
FetchFails ==
  /\ pc = "fetching"
  /\ \E reply \in ErrorReplies :
       /\ upstream' = reply
       /\ responses' = Append(responses, ErrorResponse(GitHubErrorMessage(reply)))
  /\ log' = Append(log, "respond")
  /\ pc' = "responded"
  /\ UNCHANGED <<request, repos, langs, percMap, count, topLangs, langItems, svgCalls>>
  /\ UNCHANGED fetchCalls

\* Lines 38-39 and 185-197: the body arrives; the repositories are filtered
\* and tallied and the percentage map is built.
Aggregate ==
  /\ pc = "json"
  /\ repos' = FilterRepos(upstream.body)
  /\ langs' = TallyLanguages(repos', <<>>)
  /\ percMap' = Percentages(langs')
  /\ log' = Append(log, "aggregate")
  /\ pc' = "aggregated"
  /\ UNCHANGED <<request, upstream, fetchCalls, count, topLangs, langItems,
                 svgCalls, responses>>

\* Lines 199-202 and 42-52: the display count is read and generateSvg is
\* called; it ranks and cuts the entries and starts one colour computation
\* per retained entry, each waiting for its digest.
StartGenerateSvg ==
  /\ pc = "aggregated"
  /\ count' = DisplayCount(SearchParamsGet(request.query, "top"))
  /\ topLangs' = TopLanguages(percMap, count')
  /\ langItems' = [i \in 1..Len(topLangs') |-> Pending]
  /\ svgCalls' = svgCalls + 1
  /\ log' = Append(log, "generateSvg")
  /\ pc' = "rendering"
  /\ UNCHANGED <<request, upstream, fetchCalls, repos, langs, percMap, responses>>

\* Lines 52-72 and 143-156: the digest of one entry resolves, in any order
\* among the entries, and that entry's callback returns its row.
ColorResolves(i) ==
  /\ pc = "rendering"
  /\ i \in 1..Len(topLangs)
  /\ langItems[i] = Pending
  /\ langItems' = SettleAt(langItems, i, LangItem(topLangs[i], i - 1))
  /\ UNCHANGED <<pc, request, upstream, fetchCalls, repos, langs, percMap, count,
                 topLangs, svgCalls, responses, log>>

\* Lines 73-134 and 204-209: every row is there; Promise.all resolves, the
\* rows are joined into the document and the document is the response.
RespondSvg ==
  /\ pc = "rendering"
  /\ \A i \in 1..Len(langItems) : langItems[i] # Pending
  /\ responses' = Append(responses, SvgResponse(Height(Len(topLangs)), langItems))
  /\ log' = Append(log, "respond")
  /\ pc' = "responded"
  /\ UNCHANGED <<request, upstream, fetchCalls, repos, langs, percMap, count,
                 topLangs, langItems, svgCalls>>

Next ==
  \/ HandleOptions
  \/ HandleOtherMethod
  \/ HandleGet
  \/ FetchSucceeds
  \/ FetchFails
  \/ Aggregate
  \/ StartGenerateSvg
  \/ \E i \in 1..Len(topLangs) : ColorResolves(i)
  \/ RespondSvg

Spec == Init /\ [][Next]_vars

(***************************************************************************)
(* The percentage computation of lines 192-197 on its own, applied to      *)
(* tallies with counts larger than the enumerated lists reach.             *)
(***************************************************************************)

InitTally ==
  /\ pc = "tallied"
  /\ request = [method |-> "GET", query |-> <<>>]
  /\ upstream = NoReply
  /\ fetchCalls = 1
  /\ repos = <<>>
  /\ langs \in Tallies
  /\ percMap = <<>>
  /\ count = 0
  /\ topLangs = <<>>
  /\ langItems = <<>>
  /\ svgCalls = 0
  /\ responses = <<>>
  /\ log = <<>>

ComputePercentages ==
  /\ pc = "tallied"
  /\ percMap' = Percentages(langs)
  /\ pc' = "aggregated"
  /\ UNCHANGED <<request, upstream, fetchCalls, repos, langs, count, topLangs,
                 langItems, svgCalls, responses, log>>

NextTally == ComputePercentages

SpecTally == InitTally /\ [][NextTally]_vars

(***************************************************************************)
(* Properties                                                              *)
(***************************************************************************)

Aggregated == pc \in {"aggregated", "rendering", "responded"} /\ upstream.status = 200

AnsweredSvg ==
  pc = "responded" /\ request.method = "GET" /\ upstream.status = 200

Body == upstream.body

\* The records of the upstream list whose language is l.
RecordsWith(l) == { i \in 1..Len(Body) : Body[i].language = l }

\* The records of the upstream list that have a (non-null) language.
RecordsWithLanguage == { i \in 1..Len(Body) : Body[i].language # Null }

LanguagesSeen == { Body[i].language : i \in RecordsWithLanguage }

\* The first place of language l in the upstream list.
FirstSeen(l) == CHOOSE i \in RecordsWith(l) : \A j \in RecordsWith(l) : i <= j

\* A text of digits, a point and exactly two digits.
TwoDecimalText(t) ==
  /\ Len(t) >= 4
  /\ t[Len(t) - 2] = "."
  /\ \A i \in 1..Len(t) : i # Len(t) - 2 => IsDigit(t[i])
  /\ Len(t) > 4 => t[1] # "0"

\* The number a two-decimal text stands for, in hundredths.
Hundredths(t) ==
  100 * DigitsValue(SubSeq(t, 1, Len(t) - 3)) + DigitsValue(SubSeq(t, Len(t) - 1, Len(t)))

Abs(x) == IF x < 0 THEN 0 - x ELSE x

Text_50_00 == <<"5", "0", ".", "0", "0">>
Text_33_33 == <<"3", "3", ".", "3", "3">>
Text_16_67 == <<"1", "6", ".", "6", "7">>

\* C1: for every upstream list with at least one non-null language, the
\* percentage map holds exactly one entry per distinct language L of the
\* list, a two-decimal text that is (count(L) / total) * 100 rounded to the
\* nearest hundredth, count(L) being the records whose language is exactly L
\* and total the records with a language; the test's list gives TypeScript
\* 33.33, JavaScript 16.67 and Python 50.00, and the rows Python, TypeScript,
\* JavaScript when all are shown.
C1_Percentages ==
  (Aggregated /\ RecordsWithLanguage # {}) =>
    /\ { percMap[i][1] : i \in 1..Len(percMap) } = LanguagesSeen
    /\ Len(percMap) = Cardinality(LanguagesSeen)
    /\ \A i \in 1..Len(percMap) :
         LET t     == percMap[i][2]
             cnt   == Cardinality(RecordsWith(percMap[i][1]))
             total == Cardinality(RecordsWithLanguage)
         IN  /\ TwoDecimalText(t)
             /\ 2 * Abs(Hundredths(t) * total - 10000 * cnt) <= total
    /\ Body = mockRepos =>
         /\ percMap = << <<"TypeScript", Text_33_33>>, <<"JavaScript", Text_16_67>>,
                         <<"Python", Text_50_00>> >>
         /\ (pc = "responded" /\ count >= 3) =>
              [i \in 1..3 |-> <<responses[1].body.rows[i].name, responses[1].body.rows[i].perc>>]
                = << <<"Python", Text_50_00>>, <<"TypeScript", Text_33_33>>,
                     <<"JavaScript", Text_16_67>> >>

C1_Witness ==
  /\ pc = "responded"
  /\ upstream.status = 200
  /\ Body = mockRepos
  /\ count = 5
  /\ Len(responses[1].body.rows) = 3

\* C2: the rendered rows are in descending order of their numeric
\* percentage, and two rows of equal percentage are in the order in which
\* their languages first appear in the upstream list.
C2_RankedStable ==
  AnsweredSvg =>
    LET rows == responses[1].body.rows
    IN  \A i \in 1..Len(rows) : \A j \in 1..Len(rows) :
          i < j =>
            /\ Hundredths(rows[i].perc) >= Hundredths(rows[j].perc)
            /\ Hundredths(rows[i].perc) = Hundredths(rows[j].perc)
                 => FirstSeen(rows[i].name) < FirstSeen(rows[j].name)

\* A tie kept in first-seen order next to a row the sort moved forward, with
\* a percentage of one integer digit ranked below one of two.
C2_Witness ==
  /\ AnsweredSvg
  /\ LET rows == responses[1].body.rows
     IN  /\ Len(rows) = 3
         /\ FirstSeen(rows[1].name) > FirstSeen(rows[2].name)
         /\ Len(rows[1].perc) = 5
         /\ Len(rows[3].perc) = 4

C2_WitnessTie ==
  /\ AnsweredSvg
  /\ LET rows == responses[1].body.rows
     IN  /\ Len(rows) = 3
         /\ FirstSeen(rows[1].name) > FirstSeen(rows[2].name)
         /\ rows[2].perc = rows[3].perc

\* C3: a record whose language is null or the empty string never counts:
\* no tally or percentage entry has the empty name, the total is the number
\* of records with a non-empty language, and no row has the empty name.
C3_EmptyFiltered ==
  Aggregated =>
    /\ ~MapHas(langs, "")
    /\ ~MapHas(percMap, "")
    /\ TotalCount(langs)
         = Cardinality({ i \in 1..Len(Body) : Body[i].language \notin {Null, ""} })
    /\ pc = "responded" => \A i \in 1..Len(responses[1].body.rows) :
                              responses[1].body.rows[i].name # ""

\* The `top` parameter of the request.
Top == SearchParamsGet(request.query, "top")

CountRead == pc \in {"rendering", "responded"} /\ request.method = "GET" /\ upstream.status = 200

\* A text that is a positive integer and nothing else (white space before
\* it set aside).
PositiveIntegerText(t) ==
  /\ t # NullText
  /\ TrimStart(t) # <<>>
  /\ \A i \in 1..Len(TrimStart(t)) : IsDigit(TrimStart(t)[i])
  /\ DigitsValue(TrimStart(t)) > 0

\* C4 as claimed: the display count is the value of `top` when that is a
\* positive integer and 5 in every other case.
C4_StrictPositiveInteger ==
  CountRead =>
    count = IF PositiveIntegerText(Top) THEN DigitsValue(TrimStart(Top)) ELSE 5

\* Where the digits of t begin: after leading spaces and one sign.
DigitsStart(t) ==
  LET s == CHOOSE i \in 1..Len(t) + 1 :
             /\ \A j \in 1..i - 1 : t[j] = " "
             /\ i <= Len(t) => t[i] # " "
  IN  IF s <= Len(t) /\ t[s] \in {"+", "-"} THEN s + 1 ELSE s

\* Where the run of digits that begins at DigitsStart(t) ends.
DigitsEnd(t) ==
  CHOOSE k \in DigitsStart(t) - 1..Len(t) :
    /\ \A j \in DigitsStart(t)..k : IsDigit(t[j])
    /\ k < Len(t) => ~IsDigit(t[k + 1])

Negative(t) == DigitsStart(t) > 1 /\ t[DigitsStart(t) - 1] = "-"

\* C4 as amended: the display count is the value of the run of decimal
\* digits at the start of `top` (after leading white space and a sign),
\* whatever text follows the run, when `top` is present and not empty, the
\* run is not empty and the value is positive; it is 5 in every other case.
C4_LeadingInteger ==
  CountRead =>
    count = IF /\ Top # NullText
               /\ Top # <<>>
               /\ DigitsEnd(Top) >= DigitsStart(Top)
               /\ ~Negative(Top)
               /\ DigitsValue(SubSeq(Top, DigitsStart(Top), DigitsEnd(Top))) > 0
            THEN DigitsValue(SubSeq(Top, DigitsStart(Top), DigitsEnd(Top)))
            ELSE 5

C4_Witness ==
  /\ CountRead
  /\ Top = <<"2", "a", "b", "c">>
  /\ count = 2

\* The names of a sequence of entries or rows.
EntryNames(s) == [i \in 1..Len(s) |-> s[i][1]]

RowNames(s) == [i \in 1..Len(s) |-> s[i].name]

Min(a, b) == IF a < b THEN a ELSE b

\* C5: for a display count n > 0 and k ranked languages the document holds
\* exactly the first min(n, k) entries of the ranked list, in that order,
\* and no row for a language ranked lower; the test's list with count 2
\* gives Python and TypeScript and not JavaScript.
C5_FirstN ==
  AnsweredSvg =>
    LET rows   == responses[1].body.rows
        ranked == SortEntries(percMap)
        n      == Min(count, Len(ranked))
    IN  /\ count > 0
        /\ Len(rows) = n
        /\ \A i \in 1..n : rows[i].name = ranked[i][1] /\ rows[i].perc = ranked[i][2]
        /\ \A j \in n + 1..Len(ranked) : \A i \in 1..Len(rows) : rows[i].name # ranked[j][1]
        /\ (Body = mockRepos /\ count = 2) => RowNames(rows) = <<"Python", "TypeScript">>

C5_Witness ==
  /\ AnsweredSvg
  /\ Body = mockRepos
  /\ count = 2
  /\ Len(percMap) = 3
  /\ Len(responses[1].body.rows) = 2

UpstreamFailed == upstream.status \notin {0, 200}

\* C6: when the upstream replies without success the request has exactly one
\* response, the 500 JSON error 'Failed to fetch repository data' whose
\* message carries the upstream status code and text, and generateSvg was
\* not called.
C6_UpstreamError ==
  UpstreamFailed =>
    /\ pc = "responded"
    /\ Len(responses) = 1
    /\ responses[1].status = 500
    /\ responses[1].contentType = "application/json"
    /\ responses[1].body.error = "Failed to fetch repository data"
    /\ upstream.status = 403 => responses[1].body.message = "GitHub API error: 403 Forbidden"
    /\ upstream.status = 404 => responses[1].body.message = "GitHub API error: 404 Not Found"
    /\ svgCalls = 0
    /\ topLangs = <<>> /\ langItems = <<>>

C6_Witness ==
  /\ upstream.status = 403
  /\ pc = "responded"
  /\ Len(responses) = 1

NaNText == <<"N", "a", "N">>

\* C7: with no record that has a language, the answer is the well-formed
\* chart with no row (height 55 + 30); and no percentage text is ever the
\* NaN of a division by zero.
C7_NoLanguages ==
  /\ Aggregated => \A i \in 1..Len(percMap) : TwoDecimalText(percMap[i][2])
  /\ (Aggregated /\ RecordsWithLanguage = {}) => percMap = <<>>
  /\ (AnsweredSvg /\ RecordsWithLanguage = {}) =>
       /\ Len(responses) = 1
       /\ responses[1].status = 200
       /\ responses[1].contentType = "image/svg+xml"
       /\ responses[1].body.rows = <<>>
       /\ responses[1].body.height = 85
  /\ AnsweredSvg => \A i \in 1..Len(responses[1].body.rows) :
                      responses[1].body.rows[i].perc # NaNText

\* Every record of a list of two without a language.
C7_Witness ==
  /\ AnsweredSvg
  /\ Len(Body) = 2
  /\ RecordsWithLanguage = {}

RECURSIVE SumHundredths(_)
SumHundredths(m) ==
  IF m = <<>> THEN 0 ELSE Hundredths(m[1][2]) + SumHundredths(Tail(m))

\* C8: for a non-empty tally the two-decimal percentages of all its
\* languages sum to 100.00 within 0.01 times the number of languages.
C8_SumNear100 ==
  (pc = "aggregated" /\ langs # <<>>) =>
    /\ Len(percMap) = Len(langs)
    /\ Abs(SumHundredths(percMap) - 10000) <= Len(langs)

\* 1, 15 and 16 of 32: 3.125 is a tie and rounds up, the sum is 100.01.
C8_Witness ==
  /\ pc = "aggregated"
  /\ langs = << <<"TypeScript", 1>>, <<"Python", 15>>, <<"JavaScript", 16>> >>
  /\ SumHundredths(percMap) = 10001

\* The colour the digest gives each language name: '#' and the first six
\* hex digits of its SHA-1.
ColorOf(name) ==
  CASE name = "TypeScript" -> <<"#", "d", "4", "a", "8", "6", "c">>
    [] name = "JavaScript" -> <<"#", "e", "e", "6", "2", "0", "9">>
    [] name = "Python"     -> <<"#", "6", "e", "3", "6", "0", "4">>
    [] name = ""           -> <<"#", "d", "a", "3", "9", "a", "3">>

RowOf(entry, i) ==
  [ offset |-> (i - 1) * 40, name |-> entry[1], perc |-> entry[2],
    width |-> entry[2], fill |-> ColorOf(entry[1]) ]

\* C9: in whatever order the colour computations complete, a settled row
\* sits at the place of its entry in the ranked list, at offset 40 times
\* that place (from 0), with the entry's own name, percentage and colour;
\* and the document's rows are all of them in that order.
C9_RowsInRankedOrder ==
  /\ pc \in {"rendering", "responded"} /\ svgCalls = 1 =>
       /\ Len(langItems) = Len(topLangs)
       /\ \A i \in 1..Len(langItems) :
            langItems[i] # Pending => langItems[i] = RowOf(topLangs[i], i)
  /\ AnsweredSvg =>
       responses[1].body.rows = [i \in 1..Len(topLangs) |-> RowOf(topLangs[i], i)]

\* The third computation has completed before the first and the second.
C9_Witness ==
  /\ pc = "rendering"
  /\ Len(langItems) = 3
  /\ langItems[1] = Pending
  /\ langItems[2] = Pending
  /\ langItems[3] # Pending

IsPrefix(s, t) == Len(s) <= Len(t) /\ SubSeq(t, 1, Len(s)) = s

Occurrences(s, e) == Cardinality({ i \in 1..Len(s) : s[i] = e })

\* C10: the steps of a request are in order: one upstream fetch, its
\* completion, the aggregation, the call of generateSvg, one response; a
\* failed fetch is followed by the response alone, never by another fetch;
\* there is never more than one response, and the request is over exactly
\* when it has one.
C10_OncePerRequest ==
  /\ \/ IsPrefix(log, <<"fetch", "fetched", "aggregate", "generateSvg", "respond">>)
     \/ IsPrefix(log, <<"fetch", "respond">>)
     \/ IsPrefix(log, <<"respond">>)
  /\ fetchCalls = Occurrences(log, "fetch")
  /\ fetchCalls <= 1
  /\ svgCalls = Occurrences(log, "generateSvg")
  /\ Len(responses) = Occurrences(log, "respond")
  /\ Len(responses) <= 1
  /\ request.method = "GET" => fetchCalls = 1
  /\ pc = "responded" <=> Len(responses) = 1

C10_Witness ==
  /\ log = <<"fetch", "fetched", "aggregate", "generateSvg", "respond">>
  /\ fetchCalls = 1
  /\ Len(responses) = 1

C10_WitnessFailed ==
  /\ log = <<"fetch", "respond">>
  /\ upstream.status = 404

====
